---- MODULE Spec2Model ----
(***************************************************************************)
(* The annotation store, the layer operations, the undo/redo history, the   *)
(* canvas projection and the pointer gesture controller of the PDF editor   *)
(* (PDFEditor.jsx, LayerManager.jsx, PDFViewer.jsx).                        *)
(*                                                                          *)
(* Every React event handler is one action.  A handler runs against the     *)
(* state of the render it was created in and its state updates are applied  *)
(* together when it returns; the effect that repaints the canvas is part of *)
(* every action that changes one of its dependencies.                       *)
(*                                                                          *)
(* Annotation objects live in a heap (objs); the annotation array and the   *)
(* arrays stored in the history hold references to them, as in JavaScript,  *)
(* so a write to a field of an object is seen through every array that      *)
(* holds the object.  The arrays themselves are never written in place.     *)
(*                                                                          *)
(* The layer handlers are modelled as the functions they are: they take     *)
(* every layer key and direction.  The disabled attribute of the buttons    *)
(* that call them is not part of the handlers and is not modelled.          *)
(***************************************************************************)
EXTENDS Integers, Sequences, FiniteSets, TLC

\* ------------------------------------------------------------------ bounds
\* number of annotation objects created in one run
MaxObjs == 3
\* largest pointer coordinate (canvas units) offered to the mouse handlers
MaxCoord == 6
\* largest layer key offered to the layer handlers
MaxLayer == 2
\* number of annotations created in one run of a specification that offers every kind of
\* annotation (the gesture controller, the kinds)
MaxDrawn == 2
\* number of operations (file reads, backend calls) that wait for completion at one time
MaxPending == 2
\* number of PDFs uploaded to the backend in one run
MaxUploads == 1

\* ------------------------------------------------------- program constants
TotalPages == 3
MinDrag == 5

\* a field that is absent from a JavaScript object (undefined)
UNDEF == -1

DrawableTools == {"rectangle", "circle", "highlight", "arrow"}
Tools == {"select", "text", "freehand"} \cup DrawableTools

LayerKeys == 0..MaxLayer
\* pointer positions: a drag between two of them is longer than, as long as, or shorter
\* than the threshold, on either axis
Points == {[x |-> 0, y |-> 0], [x |-> MaxCoord, y |-> MaxCoord],
           [x |-> MinDrag, y |-> MaxCoord], [x |-> MaxCoord, y |-> MinDrag]}
\* where a gesture starts: the two ends of the diagonal, so that drags run in both directions
StartPoints == {[x |-> 0, y |-> 0], [x |-> MaxCoord, y |-> MaxCoord]}
NullPoint == [x |-> UNDEF, y |-> UNDEF]
NullDraft == [type |-> "null", x |-> UNDEF, y |-> UNDEF, width |-> UNDEF, height |-> UNDEF]

\* what the viewer, the tool panel and the signature library pass to the editor
\* a text draft that carries a box
TextDraft_WithBox(point) == [type |-> "text", x |-> point.x, y |-> point.y, width |-> 0, height |-> 0]

TextDraft(point) == [type |-> "text", x |-> point.x, y |-> point.y, width |-> UNDEF, height |-> UNDEF]
ImageDraft == [type |-> "image", x |-> 100, y |-> 100, width |-> 200, height |-> 150]
SignatureDraft == [type |-> "signature", x |-> 100, y |-> 100, width |-> 200, height |-> 100]
ShapeDraft(tool) == [type |-> tool, x |-> 0, y |-> 0, width |-> MaxCoord, height |-> MaxCoord]

VARIABLES
  objs,              \* heap: objs[r] is the annotation object with reference r
  annotations,       \* PDFEditor state: array of references
  history,           \* PDFEditor state: array of arrays of references
  historyIndex,      \* PDFEditor state
  layers,            \* PDFEditor state
  currentPage,       \* PDFEditor state
  selectedTool,      \* PDFEditor state
  isDrawing,         \* PDFViewer state
  startPoint,        \* PDFViewer state
  currentAnnotation, \* PDFViewer state (the draft)
  now,               \* the clock read by Date.now()
  frame,             \* references painted on the canvas since it was last cleared, in paint order
  decoding,          \* references whose Image is loading (img.onload not yet run)
  pdfId,             \* PDFEditor state of the variant that talks to the backend (0 is null)
  pending,           \* operations started and not completed: file reads and backend calls
  last               \* the handler that ran last (see Ran)

vars == <<objs, annotations, history, historyIndex, layers, currentPage, selectedTool,
          isDrawing, startPoint, currentAnnotation, now, frame, decoding, pdfId, pending, last>>

editorVars == <<objs, annotations, history, historyIndex, layers, currentPage, now, frame, decoding>>
viewerVars == <<isDrawing, startPoint, currentAnnotation>>
apiVars == <<pdfId, pending>>

\* ----------------------------------------------------------------- helpers
Range(s) == {s[i] : i \in DOMAIN s}
Min(a, b) == IF a <= b THEN a ELSE b
Max(a, b) == IF a >= b THEN a ELSE b
Abs(a) == IF a < 0 THEN -a ELSE a

\* the annotation objects an array of references shows, field by field
View(anns) == [i \in DOMAIN anns |-> objs[anns[i]]]

\* the record of the handler that ran: ok is FALSE when its guard turned it into a no-op,
\* was is what it discarded (the annotation set a successful undo or PDF load replaced, the
\* draft a pointer-up rejected, the annotation set a failed backend call had started from)
Ran(name) == [op |-> name, ok |-> TRUE, was |-> <<>>]
Refused(name) == [Ran(name) EXCEPT !.ok = FALSE]
Dropped(name, draft) == [Ran(name) EXCEPT !.ok = FALSE, !.was = <<draft>>]
Replaced(name, anns) == [Ran(name) EXCEPT !.was = View(anns)]

\* ------------------------------------------------------ PDFViewer: drawing
\* drawAnnotation: the kinds painted inside the call
PaintedNow(a) == a.type \in {"text", "rectangle", "circle", "highlight", "arrow"}
\* drawAnnotation: the kinds painted later, from img.onload
PaintedOnLoad(a) == a.type = "signature"

\* drawAnnotations, the part painted before drawPDF returns
drawAnnotations(anns, page, heap) ==
  SelectSeq(anns, LAMBDA r : heap[r].page = page /\ PaintedNow(heap[r]))

\* drawAnnotations, the images it starts loading
startedLoads(anns, page, heap) ==
  {r \in Range(anns) : heap[r].page = page /\ PaintedOnLoad(heap[r])}

\* drawPDF, run by the effect on [pdfData, currentPage, zoomLevel, annotations]
drawPDF(anns, page, heap) ==
  /\ frame' = drawAnnotations(anns, page, heap)
  /\ decoding' = decoding \cup startedLoads(anns, page, heap)

\* img.onload of one started load
imgOnload(r) ==
  /\ r \in decoding
  /\ frame' = Append(frame, r)
  /\ decoding' = decoding \ {r}
  /\ last' = Ran("imgOnload")
  /\ UNCHANGED <<objs, annotations, history, historyIndex, layers, currentPage, selectedTool, now>>
  /\ UNCHANGED viewerVars
  /\ UNCHANGED apiVars

\* ------------------------------------------------------ PDFEditor: history
\* history is a JavaScript array indexed from 0 and historyIndex a position in it:
\* history[i] of the source is history[i + 1] here.
\* a push that keeps the entries after the cursor
addToHistory_NoTruncate(newAnnotations) ==
  LET newHistory == Append(history, newAnnotations)
  IN  /\ history' = newHistory
      /\ historyIndex' = Len(newHistory) - 1

\* addToHistory: the new values of history and historyIndex
addToHistory(newAnnotations) ==
  LET newHistory == Append(SubSeq(history, 1, historyIndex + 1), newAnnotations)
  IN  /\ history' = newHistory
      /\ historyIndex' = Len(newHistory) - 1

\* the body shared by handleAddAnnotation and handleAddSignature: build the object (t is what
\* Date.now() returns), append it to the annotations, push the snapshot
commit(draft, layer, t) ==
  /\ Len(objs) < MaxObjs
  /\ LET newAnnotation == [type |-> draft.type, x |-> draft.x, y |-> draft.y,
                           width |-> draft.width, height |-> draft.height,
                           id |-> t, page |-> currentPage, layer |-> layer]
         ref == Len(objs) + 1
     IN  /\ now' = t
         /\ objs' = Append(objs, newAnnotation)
         /\ annotations' = Append(annotations, ref)
         /\ addToHistory(Append(annotations, ref))
  /\ drawPDF(annotations', currentPage, objs')
  /\ UNCHANGED <<layers, currentPage>>

\* handleAddAnnotation(annotation): layer: layers.length
handleAddAnnotation(draft, t) == commit(draft, Len(layers), t)

\* handleAddSignature(signature): the new object gets no layer field
handleAddSignature(draft, t) == commit(draft, UNDEF, t)

\* an operation that completes later: what the render that starts it passes to the handler
\* that will run on completion (the draft, and the state the handler's closure reads)
Started(kind, draft) ==
  [kind |-> kind, draft |-> draft, page |-> currentPage, layer |-> Len(layers),
   annotations |-> annotations, history |-> history, historyIndex |-> historyIndex]

\* an array without its i-th element
Without(s, i) == SubSeq(s, 1, i - 1) \o SubSeq(s, i + 1, Len(s))

\* newAnnotation of handleAddAnnotation, built from the closure c; id is what Date.now()
\* returns
newAnnotationOf(c, id) ==
  [type |-> c.draft.type, x |-> c.draft.x, y |-> c.draft.y,
   width |-> c.draft.width, height |-> c.draft.height,
   id |-> id, page |-> c.page, layer |-> c.layer]

\* the tail of handleAddAnnotation when it runs after the render that created it is gone:
\* setAnnotations(prev => [...prev, newAnnotation]) appends to the current array,
\* addToHistory([...annotations, newAnnotation]) reads annotations, history and historyIndex
\* of the closure c
commitLater(c, newAnnotation) ==
  /\ Len(objs) < MaxObjs
  /\ LET ref == Len(objs) + 1
         newHistory == Append(SubSeq(c.history, 1, c.historyIndex + 1), Append(c.annotations, ref))
     IN  /\ objs' = Append(objs, newAnnotation)
         /\ annotations' = Append(annotations, ref)
         /\ history' = newHistory
         /\ historyIndex' = Len(newHistory) - 1
  /\ drawPDF(annotations', currentPage, objs')
  /\ UNCHANGED <<layers, currentPage>>

\* onAddAnnotation: the editor's handleAddAnnotation as the viewer and the tool panel call it
onAddAnnotation(draft, t) ==
  /\ handleAddAnnotation(draft, t)
  /\ last' = Ran("onAddAnnotation")
  /\ UNCHANGED selectedTool
  /\ UNCHANGED viewerVars
  /\ UNCHANGED apiVars

\* an undo that also steps back from the first snapshot, to the empty set
handleUndo_ToEmpty ==
  /\ IF historyIndex >= 0
       THEN /\ historyIndex' = historyIndex - 1
            /\ annotations' = IF historyIndex > 0 THEN history[historyIndex] ELSE <<>>
            /\ drawPDF(annotations', currentPage, objs)
            /\ last' = Replaced("handleUndo", annotations)
       ELSE /\ UNCHANGED <<historyIndex, annotations, frame, decoding>>
            /\ last' = Refused("handleUndo")
  /\ UNCHANGED <<objs, history, layers, currentPage, selectedTool, now>>
  /\ UNCHANGED viewerVars
  /\ UNCHANGED apiVars

\* an undo that moves the cursor but installs the snapshot it came from
handleUndo_Stale ==
  /\ IF historyIndex > 0
       THEN /\ historyIndex' = historyIndex - 1
            /\ annotations' = history[historyIndex + 1]
            /\ drawPDF(annotations', currentPage, objs)
            /\ last' = Replaced("handleUndo", annotations)
       ELSE /\ UNCHANGED <<historyIndex, annotations, frame, decoding>>
            /\ last' = Refused("handleUndo")
  /\ UNCHANGED <<objs, history, layers, currentPage, selectedTool, now>>
  /\ UNCHANGED viewerVars
  /\ UNCHANGED apiVars

handleUndo ==
  /\ IF historyIndex > 0
       THEN /\ historyIndex' = historyIndex - 1
            /\ annotations' = history[historyIndex]
            /\ drawPDF(annotations', currentPage, objs)
            /\ last' = Replaced("handleUndo", annotations)
       ELSE /\ UNCHANGED <<historyIndex, annotations, frame, decoding>>
            /\ last' = Refused("handleUndo")
  /\ UNCHANGED <<objs, history, layers, currentPage, selectedTool, now>>
  /\ UNCHANGED viewerVars
  /\ UNCHANGED apiVars

\* a redo that refuses one step too early
handleRedo_OffByOne ==
  /\ IF historyIndex < Len(history) - 2
       THEN /\ historyIndex' = historyIndex + 1
            /\ annotations' = history[historyIndex + 2]
            /\ drawPDF(annotations', currentPage, objs)
            /\ last' = Ran("handleRedo")
       ELSE /\ UNCHANGED <<historyIndex, annotations, frame, decoding>>
            /\ last' = Refused("handleRedo")
  /\ UNCHANGED <<objs, history, layers, currentPage, selectedTool, now>>
  /\ UNCHANGED viewerVars
  /\ UNCHANGED apiVars

handleRedo ==
  /\ IF historyIndex < Len(history) - 1
       THEN /\ historyIndex' = historyIndex + 1
            /\ annotations' = history[historyIndex + 2]
            /\ drawPDF(annotations', currentPage, objs)
            /\ last' = Ran("handleRedo")
       ELSE /\ UNCHANGED <<historyIndex, annotations, frame, decoding>>
            /\ last' = Refused("handleRedo")
  /\ UNCHANGED <<objs, history, layers, currentPage, selectedTool, now>>
  /\ UNCHANGED viewerVars
  /\ UNCHANGED apiVars

handlePageChange(direction) ==
  /\ IF direction = "next" /\ currentPage < TotalPages
       THEN currentPage' = currentPage + 1 /\ drawPDF(annotations, currentPage', objs)
       ELSE IF direction = "prev" /\ currentPage > 1
         THEN currentPage' = currentPage - 1 /\ drawPDF(annotations, currentPage', objs)
         ELSE UNCHANGED <<currentPage, frame, decoding>>
  /\ last' = Ran("handlePageChange")
  /\ UNCHANGED <<objs, annotations, history, historyIndex, layers, selectedTool, now>>
  /\ UNCHANGED viewerVars
  /\ UNCHANGED apiVars

handleToolSelect(tool) ==
  /\ selectedTool' = tool
  /\ last' = Ran("handleToolSelect")
  /\ UNCHANGED editorVars
  /\ UNCHANGED viewerVars
  /\ UNCHANGED apiVars

\* a load that resets the session but stays on the page that was shown
handleFileUpload_KeepsPage(file) ==
  /\ IF file = "pdf"
       THEN /\ annotations' = <<>>
            /\ layers' = <<>>
            /\ history' = <<>>
            /\ historyIndex' = -1
            /\ drawPDF(annotations', currentPage, objs)
            /\ last' = Replaced("handleFileUpload", annotations)
       ELSE /\ UNCHANGED <<annotations, layers, history, historyIndex, frame, decoding>>
            /\ last' = Refused("handleFileUpload")
  /\ UNCHANGED <<objs, selectedTool, now, currentPage>>
  /\ UNCHANGED viewerVars
  /\ UNCHANGED apiVars

\* a load that empties the history but leaves the cursor where it was
handleFileUpload_KeepsCursor(file) ==
  /\ IF file = "pdf"
       THEN /\ currentPage' = 1
            /\ annotations' = <<>>
            /\ layers' = <<>>
            /\ history' = <<>>
            /\ drawPDF(annotations', currentPage', objs)
            /\ last' = Replaced("handleFileUpload", annotations)
       ELSE /\ UNCHANGED <<currentPage, annotations, layers, history, frame, decoding>>
            /\ last' = Refused("handleFileUpload")
  /\ UNCHANGED <<objs, selectedTool, now, historyIndex>>
  /\ UNCHANGED viewerVars
  /\ UNCHANGED apiVars

\* handleFileUpload(event): file is "none" (no file chosen), "large", "notpdf" or "pdf"
handleFileUpload(file) ==
  /\ IF file = "pdf"
       THEN /\ currentPage' = 1
            /\ annotations' = <<>>
            /\ layers' = <<>>
            /\ history' = <<>>
            /\ historyIndex' = -1
            /\ drawPDF(annotations', currentPage', objs)
            /\ last' = Replaced("handleFileUpload", annotations)
       ELSE /\ UNCHANGED <<currentPage, annotations, layers, history, historyIndex, frame, decoding>>
            /\ last' = Refused("handleFileUpload")
  /\ UNCHANGED <<objs, selectedTool, now>>
  /\ UNCHANGED viewerVars
  /\ UNCHANGED apiVars

\* ------------------------------- PDFEditor, the variant that talks to the backend
\* handleUndo, handleRedo and addToHistory of this variant are the ones above, line for line.
\* what ApiService.createAnnotation resolves to (response.data): the request with an id
\* given by the backend
createAnnotation(c, id) ==
  [type |-> c.draft.type, x |-> c.draft.x, y |-> c.draft.y,
   width |-> c.draft.width, height |-> c.draft.height,
   id |-> id, page |-> c.page, layer |-> c.layer]

\* handleAddAnnotation / handleAddSignature up to the await: refused without a PDF, else the
\* request is built from the state of this render and posted
postAnnotation(name, draft) ==
  /\ IF pdfId = 0
       THEN /\ UNCHANGED pending
            /\ last' = Refused(name)
       ELSE /\ Len(pending) < MaxPending
            /\ pending' = Append(pending, Started("post", draft))
            /\ last' = Ran(name)
  /\ UNCHANGED <<selectedTool, pdfId>>
  /\ UNCHANGED editorVars
  /\ UNCHANGED viewerVars

handleAddAnnotationAsync(draft) == postAnnotation("handleAddAnnotation", draft)
handleAddSignatureAsync(draft) == postAnnotation("handleAddSignature", draft)

\* a completion handler that installs the set its closure saw
createAnnotationRejected_RollsBack(i) ==
  /\ i \in DOMAIN pending
  /\ pending[i].kind = "post"
  /\ pending' = Without(pending, i)
  /\ annotations' = pending[i].annotations
  /\ drawPDF(annotations', currentPage, objs)
  /\ last' = Replaced("createAnnotationRejected", pending[i].annotations)
  /\ UNCHANGED <<objs, history, historyIndex, layers, currentPage, now, selectedTool, pdfId>>
  /\ UNCHANGED viewerVars

\* the await of the i-th started operation throws: the catch block shows a toast
createAnnotationRejected(i) ==
  /\ i \in DOMAIN pending
  /\ pending[i].kind = "post"
  /\ pending' = Without(pending, i)
  /\ last' = Replaced("createAnnotationRejected", pending[i].annotations)
  /\ UNCHANGED <<selectedTool, pdfId>>
  /\ UNCHANGED editorVars
  /\ UNCHANGED viewerVars

\* the await of the i-th started operation returns: the rest of the handler runs in the
\* closure of the render that started it
createAnnotationResolved(i) ==
  /\ i \in DOMAIN pending
  /\ pending[i].kind = "post"
  /\ commitLater(pending[i], createAnnotation(pending[i], Len(objs) + 1))
  /\ pending' = Without(pending, i)
  /\ last' = Ran("createAnnotationResolved")
  /\ UNCHANGED <<now, selectedTool, pdfId>>
  /\ UNCHANGED viewerVars

\* handleFileUpload of this variant; uploaded tells whether ApiService.uploadPDF succeeded.
\* A success gives a new pdfId, and the effect on [pdfId] starts loadAnnotations.
handleFileUploadAsync(file, uploaded) ==
  /\ IF file = "pdf" /\ uploaded
       THEN /\ pdfId < MaxUploads
            /\ Len(pending) < MaxPending
            /\ pdfId' = pdfId + 1
            /\ currentPage' = 1
            /\ annotations' = <<>>
            /\ layers' = <<>>
            /\ history' = <<>>
            /\ historyIndex' = -1
            /\ drawPDF(annotations', currentPage', objs)
            /\ pending' = Append(pending, Started("load", NullDraft))
            /\ last' = Replaced("handleFileUpload", annotations)
       ELSE /\ UNCHANGED <<pdfId, currentPage, annotations, layers, history, historyIndex,
                           frame, decoding, pending>>
            /\ last' = Refused("handleFileUpload")
  /\ UNCHANGED <<objs, selectedTool, now>>
  /\ UNCHANGED viewerVars

\* loadAnnotations: the await returns; response.annotations is missing or empty
loadAnnotationsResolved(i) ==
  /\ i \in DOMAIN pending
  /\ pending[i].kind = "load"
  /\ annotations' = <<>>
  /\ drawPDF(annotations', currentPage, objs)
  /\ pending' = Without(pending, i)
  /\ last' = Ran("loadAnnotationsResolved")
  /\ UNCHANGED <<objs, history, historyIndex, layers, currentPage, now, selectedTool, pdfId>>
  /\ UNCHANGED viewerVars

\* ------------------------------------------------------------ LayerManager
\* groupedAnnotations: the keys of the grouping by (annotation.layer || 0)
LayerKey(a) == IF a.layer = UNDEF THEN 0 ELSE a.layer
groupedAnnotations(k) == SelectSeq(annotations, LAMBDA r : LayerKey(objs[r]) = k)
\* layerList: the listed layer indices
layerList == {LayerKey(objs[r]) : r \in Range(annotations)}

\* layerList.sort((a, b) => b.index - a.index): a set of indices, highest first
RECURSIVE sortDescending(_)
sortDescending(indices) ==
  IF indices = {} THEN <<>>
  ELSE LET top == CHOOSE i \in indices : \A j \in indices : j <= i
       IN  <<top>> \o sortDescending(indices \ {top})

\* the rows the layer manager renders: one per entry of layerList, highest index first
layerRows ==
  LET indices == sortDescending(layerList)
  IN  [i \in DOMAIN indices |-> [index |-> indices[i], annotations |-> groupedAnnotations(indices[i])]]

\* the disabled attributes of the Move Up and Move Down buttons of the row of a layer
MoveUpDisabled(index) == index >= Cardinality(layerList) - 1
MoveDownDisabled(index) == index <= 0

\* a move that also puts the moved annotations at the end of the array
handleMoveLayer_Reorders(layerIndex, direction) ==
  /\ objs' = [r \in DOMAIN objs |->
               IF r \in Range(annotations) /\ objs[r].layer = layerIndex
                 THEN [objs[r] EXCEPT !.layer =
                         IF direction = "up" THEN Min(@ + 1, Cardinality(layerList))
                                             ELSE Max(@ - 1, 0)]
                 ELSE objs[r]]
  /\ annotations' = SelectSeq(annotations, LAMBDA r : objs[r].layer # layerIndex)
                      \o SelectSeq(annotations, LAMBDA r : objs[r].layer = layerIndex)
  /\ drawPDF(annotations', currentPage, objs')
  /\ last' = Ran("handleMoveLayer")
  /\ UNCHANGED <<history, historyIndex, layers, currentPage, selectedTool, now>>
  /\ UNCHANGED viewerVars
  /\ UNCHANGED apiVars

\* handleMoveLayer(layerIndex, direction): writes the layer field of the objects in place
handleMoveLayer(layerIndex, direction) ==
  /\ objs' = [r \in DOMAIN objs |->
               IF r \in Range(annotations) /\ objs[r].layer = layerIndex
                 THEN [objs[r] EXCEPT !.layer =
                         IF direction = "up" THEN Min(@ + 1, Cardinality(layerList))
                                             ELSE Max(@ - 1, 0)]
                 ELSE objs[r]]
  /\ annotations' = annotations
  /\ drawPDF(annotations', currentPage, objs')
  /\ last' = Ran("handleMoveLayer")
  /\ UNCHANGED <<history, historyIndex, layers, currentPage, selectedTool, now>>
  /\ UNCHANGED viewerVars
  /\ UNCHANGED apiVars

handleDeleteLayer(layerIndex) ==
  /\ annotations' = SelectSeq(annotations, LAMBDA r : objs[r].layer # layerIndex)
  /\ drawPDF(annotations', currentPage, objs)
  /\ last' = Ran("handleDeleteLayer")
  /\ UNCHANGED <<objs, history, historyIndex, layers, currentPage, selectedTool, now>>
  /\ UNCHANGED viewerVars
  /\ UNCHANGED apiVars

\* handleToggleVisibility(layerIndex): shows a toast; no state is written and nothing is redrawn
handleToggleVisibility(layerIndex) ==
  /\ last' = Ran("handleToggleVisibility")
  /\ UNCHANGED selectedTool
  /\ UNCHANGED editorVars
  /\ UNCHANGED viewerVars
  /\ UNCHANGED apiVars

\* ------------------------------------------------- ToolPanel, SignatureLibrary
\* handleImageUpload(event): file is "none", "badtype" or "image"; an image starts a
\* FileReader whose onload holds the onAddAnnotation of the render that handled the event
handleImageUpload(file) ==
  /\ IF file = "image"
       THEN /\ Len(pending) < MaxPending
            /\ pending' = Append(pending, Started("read", ImageDraft))
       ELSE UNCHANGED pending
  /\ last' = Ran("handleImageUpload")
  /\ UNCHANGED <<selectedTool, pdfId>>
  /\ UNCHANGED editorVars
  /\ UNCHANGED viewerVars

\* reader.onload of the i-th started operation: onAddAnnotation({type: 'image', ...})
readerOnload(i, t) ==
  /\ i \in DOMAIN pending
  /\ pending[i].kind = "read"
  /\ commitLater(pending[i], newAnnotationOf(pending[i], t))
  /\ now' = t
  /\ pending' = Without(pending, i)
  /\ last' = Ran("readerOnload")
  /\ UNCHANGED <<selectedTool, pdfId>>
  /\ UNCHANGED viewerVars

handleUseSignature(t) ==
  /\ handleAddSignature(SignatureDraft, t)
  /\ last' = Ran("handleUseSignature")
  /\ UNCHANGED selectedTool
  /\ UNCHANGED viewerVars
  /\ UNCHANGED apiVars

\* ------------------------------------------------------ PDFViewer: gestures
\* a pointer-down that leaves the gesture open after a text placement
handleMouseDown_TextStartsDrag(point, text, t) ==
  /\ IF selectedTool = "select"
       THEN /\ UNCHANGED <<startPoint, isDrawing>>
            /\ UNCHANGED editorVars
            /\ last' = Ran("handleMouseDown")
       ELSE /\ startPoint' = point
            /\ isDrawing' = TRUE
            /\ IF selectedTool = "text" /\ text # ""
                 THEN /\ handleAddAnnotation(TextDraft(point), t)
                      /\ last' = Ran("handleMouseDown")
                 ELSE /\ UNCHANGED editorVars
                      /\ last' = Ran("handleMouseDown")
  /\ UNCHANGED <<currentAnnotation, selectedTool>>
  /\ UNCHANGED apiVars

\* handleMouseDown(event): point is getCanvasCoordinates(event); text is what prompt() returns
\* ("" when it is cancelled or left empty)
handleMouseDown(point, text, t) ==
  /\ IF selectedTool = "select"
       THEN /\ UNCHANGED <<startPoint, isDrawing>>
            /\ UNCHANGED editorVars
            /\ last' = Ran("handleMouseDown")
       ELSE /\ startPoint' = point
            /\ isDrawing' = (selectedTool # "text")
            /\ IF selectedTool = "text" /\ text # ""
                 THEN /\ handleAddAnnotation(TextDraft(point), t)
                      /\ last' = Ran("handleMouseDown")
                 ELSE /\ UNCHANGED editorVars
                      /\ last' = Ran("handleMouseDown")
  /\ UNCHANGED <<currentAnnotation, selectedTool>>
  /\ UNCHANGED apiVars

\* a pointer-move whose draft keeps the start point as its corner and a signed size
handleMouseMove_Signed(point) ==
  /\ IF ~isDrawing \/ startPoint = NullPoint
       THEN UNCHANGED currentAnnotation
       ELSE IF selectedTool \in DrawableTools
         THEN currentAnnotation' = [type |-> selectedTool,
                                    x |-> startPoint.x,
                                    y |-> startPoint.y,
                                    width |-> point.x - startPoint.x,
                                    height |-> point.y - startPoint.y]
         ELSE UNCHANGED currentAnnotation
  /\ last' = Ran("handleMouseMove")
  /\ UNCHANGED <<isDrawing, startPoint, selectedTool>>
  /\ UNCHANGED editorVars
  /\ UNCHANGED apiVars

handleMouseMove(point) ==
  /\ IF ~isDrawing \/ startPoint = NullPoint
       THEN UNCHANGED currentAnnotation
       ELSE IF selectedTool \in DrawableTools
         THEN currentAnnotation' = [type |-> selectedTool,
                                    x |-> Min(startPoint.x, point.x),
                                    y |-> Min(startPoint.y, point.y),
                                    width |-> Abs(point.x - startPoint.x),
                                    height |-> Abs(point.y - startPoint.y)]
         ELSE UNCHANGED currentAnnotation
  /\ last' = Ran("handleMouseMove")
  /\ UNCHANGED <<isDrawing, startPoint, selectedTool>>
  /\ UNCHANGED editorVars
  /\ UNCHANGED apiVars

\* a threshold test that lets a side of exactly the threshold pass
LargeEnough_Inclusive(d) == d.width >= MinDrag /\ d.height >= MinDrag

\* the drag threshold test of handleMouseUp
LargeEnough(d) == d.width > MinDrag /\ d.height > MinDrag

\* a pointer-up that commits but leaves the gesture open
handleMouseUp_StaysDrawing(t) ==
  /\ IF ~isDrawing \/ currentAnnotation = NullDraft
       THEN /\ UNCHANGED editorVars
            /\ last' = Refused("handleMouseUp")
            /\ isDrawing' = FALSE
       ELSE IF LargeEnough(currentAnnotation)
         THEN /\ handleAddAnnotation(currentAnnotation, t)
              /\ last' = Ran("handleMouseUp")
              /\ isDrawing' = isDrawing
         ELSE /\ UNCHANGED editorVars
              /\ last' = Dropped("handleMouseUp", currentAnnotation)
              /\ isDrawing' = FALSE
  /\ startPoint' = NullPoint
  /\ currentAnnotation' = NullDraft
  /\ UNCHANGED selectedTool
  /\ UNCHANGED apiVars

\* handleMouseUp(): bound to onMouseUp and to onMouseLeave
handleMouseUp(t) ==
  /\ IF ~isDrawing \/ currentAnnotation = NullDraft
       THEN /\ UNCHANGED editorVars
            /\ last' = Refused("handleMouseUp")
       ELSE IF LargeEnough(currentAnnotation)
         THEN /\ handleAddAnnotation(currentAnnotation, t)
              /\ last' = Ran("handleMouseUp")
         ELSE /\ UNCHANGED editorVars
              /\ last' = Dropped("handleMouseUp", currentAnnotation)
  /\ isDrawing' = FALSE
  /\ startPoint' = NullPoint
  /\ currentAnnotation' = NullDraft
  /\ UNCHANGED selectedTool
  /\ UNCHANGED apiVars

\* ------------------------------------------------------------------ initial state
\* the state after the components mount: the useState initial values
Init ==
  /\ objs = <<>>
  /\ annotations = <<>>
  /\ history = <<>>
  /\ historyIndex = -1
  /\ layers = <<>>
  /\ currentPage = 1
  /\ selectedTool = "select"
  /\ isDrawing = FALSE
  /\ startPoint = NullPoint
  /\ currentAnnotation = NullDraft
  /\ now = 0
  /\ frame = <<>>
  /\ decoding = {}
  /\ pdfId = 0
  /\ pending = <<>>
  /\ last = Ran("init")

\* ------------------------------------------------------------------ claims
Adds == {"onAddAnnotation", "handleUseSignature", "handleImageUpload", "handleMouseDown", "handleMouseUp"}
\* the step created one annotation object
Added == Len(objs') = Len(objs) + 1

C2_Undo ==
  [][last'.op = "handleUndo" =>
        IF historyIndex <= 0
          THEN /\ ~last'.ok
               /\ UNCHANGED <<annotations, history, historyIndex, objs>>
          ELSE /\ last'.ok
               /\ historyIndex' = historyIndex - 1
               /\ history' = history
               /\ annotations' = history'[historyIndex' + 1]
               /\ objs' = objs]_vars

\* an undo from the third snapshot: the set is the second snapshot, not a merge with the
\* set it replaced
C2_Witness ==
  /\ last.op = "handleUndo"
  /\ last.ok
  /\ Len(history) = 3
  /\ historyIndex = 1
  /\ annotations = history[2]
  /\ Len(last.was) > Len(annotations)

\* C3: redo with historyIndex >= length - 1 changes nothing; otherwise it moves the cursor
\* forward by one, leaves the history alone and replaces the annotation set by the
\* snapshot at the new cursor.
C3_Redo ==
  [][last'.op = "handleRedo" =>
        IF historyIndex >= Len(history) - 1
          THEN /\ ~last'.ok
               /\ UNCHANGED <<annotations, history, historyIndex, objs>>
          ELSE /\ last'.ok
               /\ historyIndex' = historyIndex + 1
               /\ history' = history
               /\ annotations' = history'[historyIndex' + 1]
               /\ objs' = objs]_vars

\* a redo onto the last of three snapshots
C3_Witness ==
  /\ last.op = "handleRedo"
  /\ last.ok
  /\ Len(history) = 3
  /\ historyIndex = 2
  /\ annotations = history[3]

\* the annotation set an undo followed by a redo ended with equals the set before the undo
RedoAfterUndo == last.op = "handleUndo" /\ last.ok /\ last'.op = "handleRedo"

\* C4: round trip. Whenever an undo is followed at once by a redo, the annotation set after
\* the redo is the set before the undo: the same annotations with the same field values,
\* layer included, in the same order.
C4_UndoRedoRoundTrip ==
  [][RedoAfterUndo => View(annotations)' = last.was]_vars

C6_DeleteLayerPushes ==
  [][\A k \in LayerKeys : handleDeleteLayer(k) =>
        /\ annotations' = SelectSeq(annotations, LAMBDA r : objs[r].layer # k)
        /\ Len(history') = historyIndex + 2
        /\ history'[Len(history')] = annotations'
        /\ historyIndex' = Len(history') - 1
        /\ historyIndex' > 0 => history'[historyIndex'] = annotations]_vars

\* a pointer-up that finds a draft
ReleasesDraft == last'.op = "handleMouseUp" /\ isDrawing /\ currentAnnotation # NullDraft
StoreUnchanged == UNCHANGED <<annotations, history, historyIndex, objs>>
\* the new object carries the kind and the geometry of draft d
Carries(o, d) == o.type = d.type /\ o.x = d.x /\ o.y = d.y /\ o.width = d.width /\ o.height = d.height

\* C7, as claimed: a shape draft is accepted when its width and its height are both >= 5,
\* exactly 5 included; a draft with width < 5 or height < 5 is a no-op that leaves the
\* annotation set, the history and historyIndex unchanged.
C7_AcceptsFiveOrMore ==
  [][ReleasesDraft =>
        IF currentAnnotation.width >= 5 /\ currentAnnotation.height >= 5
          THEN Added
          ELSE StoreUnchanged]_vars

\* C7, amended: a shape draft is accepted when its width and its height are both greater
\* than 5; a draft with width <= 5 or height <= 5, a side of exactly 5 included, is a no-op
\* that leaves the annotation set, the history and historyIndex unchanged.
C7_AcceptsMoreThanFive ==
  [][ReleasesDraft =>
        IF currentAnnotation.width > 5 /\ currentAnnotation.height > 5
          THEN Added /\ Carries(objs'[Len(objs')], currentAnnotation)
          ELSE StoreUnchanged]_vars

\* a draft 5 wide and more than 5 high was released and rejected
C7_Witness ==
  /\ last.op = "handleMouseUp"
  /\ ~last.ok
  /\ last.was # <<>>
  /\ last.was[1].width = 5
  /\ last.was[1].height > 5

\* C8: a pointer-up hands the draft to the store exactly once if and only if a drag is in
\* progress and the draft is more than 5 wide and more than 5 high; otherwise nothing is
\* committed; either way the controller is idle afterwards.
C8_PointerUpCommitsOnce ==
  [][last'.op = "handleMouseUp" =>
        /\ IF isDrawing /\ currentAnnotation # NullDraft
                /\ currentAnnotation.width > 5 /\ currentAnnotation.height > 5
             THEN /\ Len(objs') = Len(objs) + 1
                  /\ annotations' = Append(annotations, Len(objs'))
                  /\ Len(history') = historyIndex + 2
                  /\ objs'[Len(objs')].type = currentAnnotation.type
             ELSE /\ objs' = objs
                  /\ annotations' = annotations
                  /\ history' = history
        /\ ~isDrawing'
        /\ startPoint' = NullPoint
        /\ currentAnnotation' = NullDraft]_vars

\* a drag with a drawable tool ended in a commit and the controller is idle
C8_Witness ==
  /\ last.op = "handleMouseUp"
  /\ last.ok
  /\ selectedTool \in DrawableTools
  /\ Len(annotations) > 0
  /\ objs[annotations[Len(annotations)]].type = selectedTool
  /\ ~isDrawing

\* no two annotations of an array have the same id
UniqueIn(anns) == \A i, j \in DOMAIN anns : i # j => objs[anns[i]].id # objs[anns[j]].id

\* C9: ids are unique and stable. After every step no two annotations of the store, and no
\* two annotations of one snapshot, have the same id, and the step changed the id of no
\* annotation.
C9_IdsUniqueAndStable ==
  [][/\ UniqueIn(annotations)'
     /\ \A i \in DOMAIN history' : UniqueIn(history[i])'
     /\ \A r \in DOMAIN objs : objs'[r].id = objs[r].id]_vars

\* where annotation r stands in the annotation array (0 when it is not in it)
Position(r) == IF r \in Range(annotations)
                 THEN CHOOSE i \in DOMAIN annotations : annotations[i] = r
                 ELSE 0

\* C10: the canvas is painted in layer order. Of two annotations painted in the current
\* frame, the one painted first does not have the higher layer, and when their layers are
\* equal it is the one inserted first.
C10_PaintedInLayerOrder ==
  \A i, j \in DOMAIN frame :
     i < j =>
       /\ LayerKey(objs[frame[i]]) <= LayerKey(objs[frame[j]])
       /\ (LayerKey(objs[frame[i]]) = LayerKey(objs[frame[j]])
             /\ Position(frame[i]) > 0 /\ Position(frame[j]) > 0)
            => Position(frame[i]) < Position(frame[j])

\* the layer keys of the annotations painted in the current frame
PaintedLayers == {LayerKey(objs[r]) : r \in Range(frame)}

\* C11: layer visibility is respected by projection. Every layer is visible by default, so a
\* layer with painted annotations is visible; when the visibility toggle is used on such a
\* layer it is switched off, and then no annotation of that layer is painted; the toggle
\* changes neither the annotation set nor the history.
C11_HiddenLayerNotPainted ==
  [][\A k \in LayerKeys :
        (handleToggleVisibility(k) /\ k \in PaintedLayers) =>
           /\ k \notin PaintedLayers'
           /\ UNCHANGED <<annotations, history, historyIndex>>]_vars

\* the largest and the smallest layer value present in the store
maxObservedLayer == CHOOSE k \in layerList : \A j \in layerList : j <= k
minObservedLayer == CHOOSE k \in layerList : \A j \in layerList : k <= j

onCurrentPage == SelectSeq(annotations, LAMBDA r : objs[r].page = currentPage)

\* C15: the layer listing for the page has exactly one entry per distinct layer value among
\* the page's annotations, each entry holds exactly the page's annotations with that layer
\* value, and the entries are in strictly descending layer key.
C15_ListingOfPage ==
  /\ {layerRows[i].index : i \in DOMAIN layerRows} = {LayerKey(objs[r]) : r \in Range(onCurrentPage)}
  /\ \A i \in DOMAIN layerRows :
        layerRows[i].annotations =
          SelectSeq(onCurrentPage, LAMBDA r : LayerKey(objs[r]) = layerRows[i].index)
  /\ \A i, j \in DOMAIN layerRows : i < j => layerRows[i].index > layerRows[j].index

\* C16: every annotation in the store has a layer that is a non-negative integer.
C16_LayerIsNonNegative ==
  \A r \in Range(annotations) : objs[r].layer \in Nat

C18_FailureLeavesLocalState ==
  [][last'.op = "createAnnotationRejected" =>
        /\ annotations' = annotations
        /\ objs' = objs
        /\ history' = history
        /\ historyIndex' = historyIndex]_vars

\* a persistence call has failed after the store had moved on from the set the call started
\* from
C18_Witness ==
  /\ last.op = "createAnnotationRejected"
  /\ last.was # View(annotations)
  /\ Len(history) > 0

\* C19: local state is authoritative. A draft that was handed to add-annotation or
\* add-signature is in the local annotation set and in the history when its persistence
\* call has failed.
C19_LocalCommitSurvivesFailure ==
  [][\A i \in DOMAIN pending :
        createAnnotationRejected(i) =>
          \E r \in Range(annotations') :
             /\ Carries(objs'[r], pending[i].draft)
             /\ \E j \in DOMAIN history' : r \in Range(history'[j])]_vars

\* C20: no two mutations interleave. Every add that completes appends its annotation to the
\* annotation set and pushes, onto the history as it is then, exactly one snapshot equal to
\* the resulting annotation set.
C20_AddsDoNotInterleave ==
  [][Added =>
        /\ annotations' = Append(annotations, Len(objs'))
        /\ history' = Append(SubSeq(history, 1, historyIndex + 1), annotations')
        /\ historyIndex' = Len(history') - 1]_vars

\* C21: every annotation on the current page is projected to a draw primitive, whatever its
\* kind: it has been painted in the current frame, or its image is being decoded and will
\* be painted when the decode completes.
C21_EveryKindIsProjected ==
  \A r \in Range(annotations) :
     objs[r].page = currentPage => (r \in Range(frame) \/ r \in decoding)

\* C22: history cursor invariant. In every state -1 <= historyIndex <= length(history) - 1,
\* and historyIndex = -1 exactly when the history is empty.
C22_HistoryCursorInRange ==
  /\ -1 <= historyIndex
  /\ historyIndex <= Len(history) - 1
  /\ historyIndex = -1 <=> history = <<>>

\* an undo has put the cursor on the first of two snapshots, in a session that was started
\* by a PDF load
C22_Witness ==
  /\ last.op = "handleUndo"
  /\ last.ok
  /\ historyIndex = 0
  /\ Len(history) = 2
  /\ Len(objs) > Len(history)

\* C23: a pointer-move while dragging with a drawable tool produces a normalized draft: its
\* corner is the component-wise minimum of the start and the current point, its size the
\* absolute difference, so that width and height are never negative; the draft is a preview:
\* a pointer-move never changes the annotation set, the history or historyIndex; with the
\* select tool a pointer-move produces no draft.
C23_MoveDraftsNormalizedPreview ==
  [][\A point \in Points :
        handleMouseMove(point) =>
          /\ StoreUnchanged
          /\ IF isDrawing /\ startPoint # NullPoint /\ selectedTool \in DrawableTools
               THEN LET d == currentAnnotation'
                    IN  /\ d.type = selectedTool
                        /\ d.width >= 0 /\ d.height >= 0
                        /\ d.x <= startPoint.x /\ d.x <= point.x
                        /\ d.y <= startPoint.y /\ d.y <= point.y
                        /\ {d.x, d.x + d.width} = {startPoint.x, point.x}
                        /\ {d.y, d.y + d.height} = {startPoint.y, point.y}
               ELSE currentAnnotation' = currentAnnotation
          /\ selectedTool = "select" => currentAnnotation' = currentAnnotation]_vars

\* a drag that ran towards the origin: the corner of the draft is not the start point
C23_Witness ==
  /\ last.op = "handleMouseMove"
  /\ isDrawing
  /\ currentAnnotation # NullDraft
  /\ currentAnnotation.x < startPoint.x
  /\ currentAnnotation.y < startPoint.y
  /\ currentAnnotation.width > 0

\* C24: text placement is a short-circuit from idle to idle. A pointer-down with the text
\* tool commits exactly one text annotation at the pointer position when the prompt returns
\* text, and nothing when it is cancelled or empty; either way the controller is not
\* dragging afterwards, and a pointer-move or pointer-up that finds it not dragging commits
\* nothing.
C24_TextPlacementShortCircuit ==
  [][/\ \A point \in StartPoints, text \in {"", "t"} :
          (handleMouseDown(point, text, now + 1) /\ selectedTool = "text") =>
             /\ IF text # ""
                  THEN /\ Added
                       /\ annotations' = Append(annotations, Len(objs'))
                       /\ Carries(objs'[Len(objs')], TextDraft(point))
                  ELSE StoreUnchanged
             /\ ~isDrawing'
     /\ (last'.op \in {"handleMouseMove", "handleMouseUp"} /\ ~isDrawing) => StoreUnchanged]_vars

\* a pointer-up after a text placement: refused, the text is the only annotation
C24_Witness ==
  /\ last.op = "handleMouseUp"
  /\ ~last.ok
  /\ selectedTool = "text"
  /\ Len(objs) = 1
  /\ annotations = <<1>>
  /\ objs[1].type = "text"
  /\ ~isDrawing

\* C25: the frame shown for the current page holds only annotations that are anchored to
\* that page and are in the current annotation set, also when a decode completes after the
\* page was changed or after the annotation was removed.
C25_FrameShowsCurrentPageOnly ==
  \A r \in Range(frame) : objs[r].page = currentPage /\ r \in Range(annotations)

\* C26: store/history agreement. In every state with historyIndex >= 0 the annotation set is
\* the snapshot at the cursor, history[historyIndex].
C26_StoreIsSnapshotAtCursor ==
  historyIndex >= 0 => annotations = history[historyIndex + 1]

Files == {"none", "large", "notpdf", "pdf"}

C29_EveryGestureEndsIdle ==
  [][/\ last'.op = "handleMouseUp" =>
          (~isDrawing' /\ startPoint' = NullPoint /\ currentAnnotation' = NullDraft)
     /\ (last.op = "handleMouseDown" /\ last'.op = "handleMouseUp") => StoreUnchanged
     /\ (last'.op = "handleMouseDown" /\ isDrawing') => currentAnnotation' = NullDraft]_vars

\* C30: the layers state is never changed from the empty list, so every annotation that is
\* committed through add-annotation gets layer 0, whatever the store holds; two annotations
\* of the store have different layer values only as the result of moveLayer, that is, only
\* when one of them has a layer that no add assigns (a layer above 0).
C30_LayerZeroUnlessMoved ==
  /\ [](layers = <<>>)
  /\ [][(Added /\ last'.op # "handleUseSignature") => objs'[Len(objs')].layer = 0]_vars
  /\ [](\A r, s \in Range(annotations) :
           objs[r].layer # objs[s].layer => (objs[r].layer > 0 \/ objs[s].layer > 0))

\* ---------------------------------------------------------- specifications
\* Date.now() at the next event: a later millisecond, or the same one
SameOrLaterMs == {now, now + 1}

\* the annotation store, the history and the layer operations
NextStore ==
  \/ onAddAnnotation(ShapeDraft("rectangle"), now + 1)
  \/ handleUseSignature(now + 1)
  \/ handleUndo
  \/ handleRedo
  \/ \E k \in LayerKeys, direction \in {"up", "down"} : handleMoveLayer(k, direction)
  \/ \E k \in LayerKeys : handleDeleteLayer(k)

SpecStore == Init /\ [][NextStore]_vars

\* a session: PDF loads, the store with images that are added when their file has been read
\* (one file at a time), the history and the removal of layers
NextSession ==
  \/ \E file \in Files : handleFileUpload(file)
  \/ onAddAnnotation(ShapeDraft("rectangle"), now + 1)
  \/ handleUseSignature(now + 1)
  \/ pending = <<>> /\ handleImageUpload("image")
  \/ \E i \in DOMAIN pending : readerOnload(i, now + 1)
  \/ handleUndo
  \/ handleRedo
  \/ \E k \in LayerKeys : handleDeleteLayer(k)

SpecSession == Init /\ [][NextSession]_vars

\* PDF loads in a session with several pages: loads, page changes, the store and the history,
\* until MaxDrawn annotations have been created
NextLoad ==
  \/ \E file \in Files : handleFileUpload(file)
  \/ \E direction \in {"next", "prev"} : handlePageChange(direction)
  \/ onAddAnnotation(ShapeDraft("rectangle"), now + 1) /\ Len(objs') <= MaxDrawn
  \/ handleUseSignature(now + 1) /\ Len(objs') <= MaxDrawn
  \/ handleUndo
  \/ handleRedo

SpecLoad == Init /\ [][NextLoad]_vars

\* the pointer gestures of the viewer, until MaxDrawn annotations have been drawn
NextViewer ==
  \/ \E tool \in Tools : handleToolSelect(tool)
  \/ \E point \in StartPoints, text \in {"", "t"} :
        handleMouseDown(point, text, now + 1) /\ Len(objs') <= MaxDrawn
  \/ \E point \in Points : handleMouseMove(point)
  \/ handleMouseUp(now + 1) /\ Len(objs') <= MaxDrawn

SpecViewer == Init /\ [][NextViewer]_vars

\* the store with a clock that may give two events the same millisecond
NextIds ==
  \/ \E t \in SameOrLaterMs : onAddAnnotation(ShapeDraft("rectangle"), t)
  \/ \E t \in SameOrLaterMs : handleUseSignature(t)
  \/ handleUndo
  \/ handleRedo
  \/ \E k \in LayerKeys, direction \in {"up", "down"} : handleMoveLayer(k, direction)
  \/ \E k \in LayerKeys : handleDeleteLayer(k)

SpecIds == Init /\ [][NextIds]_vars

\* the store and the canvas it is painted on, until MaxDrawn annotations have been created
NextRender ==
  \/ onAddAnnotation(ShapeDraft("rectangle"), now + 1) /\ Len(objs') <= MaxDrawn
  \/ handleUseSignature(now + 1) /\ Len(objs') <= MaxDrawn
  \/ \E k \in LayerKeys, direction \in {"up", "down"} : handleMoveLayer(k, direction)
  \/ \E direction \in {"next", "prev"} : handlePageChange(direction)
  \/ \E k \in LayerKeys : handleToggleVisibility(k)
  \/ \E r \in decoding : imgOnload(r)

SpecRender == Init /\ [][NextRender]_vars

\* the store with every kind of annotation, as the viewer, the tool panel and the signature
\* library hand them over, until MaxDrawn annotations have been created; a file that is
\* being read is read to the end before the next event
NextKinds ==
  \/ \E point \in StartPoints :
        pending = <<>> /\ onAddAnnotation(TextDraft(point), now + 1) /\ Len(objs') <= MaxDrawn
  \/ \E tool \in DrawableTools :
        pending = <<>> /\ onAddAnnotation(ShapeDraft(tool), now + 1) /\ Len(objs') <= MaxDrawn
  \/ pending = <<>> /\ handleImageUpload("image")
  \/ \E i \in DOMAIN pending : readerOnload(i, now + 1) /\ Len(objs') <= MaxDrawn
  \/ pending = <<>> /\ handleUseSignature(now + 1) /\ Len(objs') <= MaxDrawn
  \/ pending = <<>> /\ handleUndo
  \/ pending = <<>> /\ handleRedo
  \/ \E k \in LayerKeys, direction \in {"up", "down"} :
        pending = <<>> /\ handleMoveLayer(k, direction)

SpecKinds == Init /\ [][NextKinds]_vars

\* the editor that talks to the backend: an upload, shapes that wait for the backend, undo, redo
NextApi ==
  \/ \E uploaded \in BOOLEAN : handleFileUploadAsync("pdf", uploaded)
  \/ \E i \in DOMAIN pending : loadAnnotationsResolved(i)
  \/ handleAddAnnotationAsync(ShapeDraft("rectangle"))
  \/ \E i \in DOMAIN pending : createAnnotationResolved(i) /\ Len(objs') <= MaxDrawn
  \/ \E i \in DOMAIN pending : createAnnotationRejected(i)
  \/ handleUndo
  \/ handleRedo

SpecApi == Init /\ [][NextApi]_vars

\* the editor that talks to the backend: an upload, shapes and signatures that wait for the
\* backend
NextApiAdds ==
  \/ \E uploaded \in BOOLEAN : handleFileUploadAsync("pdf", uploaded)
  \/ \E i \in DOMAIN pending : loadAnnotationsResolved(i)
  \/ handleAddAnnotationAsync(ShapeDraft("rectangle"))
  \/ handleAddSignatureAsync(SignatureDraft)
  \/ \E i \in DOMAIN pending : createAnnotationResolved(i) /\ Len(objs') <= MaxDrawn
  \/ \E i \in DOMAIN pending : createAnnotationRejected(i)

SpecApiAdds == Init /\ [][NextApiAdds]_vars

\* the whole editor
Next ==
  \/ \E tool \in Tools : handleToolSelect(tool)
  \/ \E direction \in {"next", "prev"} : handlePageChange(direction)
  \/ \E file \in Files : handleFileUpload(file)
  \/ \E point \in StartPoints, text \in {"", "t"}, t \in SameOrLaterMs : handleMouseDown(point, text, t)
  \/ \E point \in Points : handleMouseMove(point)
  \/ \E t \in SameOrLaterMs : handleMouseUp(t)
  \/ \E file \in {"none", "badtype", "image"} : handleImageUpload(file)
  \/ \E i \in DOMAIN pending, t \in SameOrLaterMs : readerOnload(i, t)
  \/ \E t \in SameOrLaterMs : handleUseSignature(t)
  \/ handleUndo
  \/ handleRedo
  \/ \E k \in LayerKeys, direction \in {"up", "down"} : handleMoveLayer(k, direction)
  \/ \E k \in LayerKeys : handleDeleteLayer(k)
  \/ \E k \in LayerKeys : handleToggleVisibility(k)
  \/ \E r \in decoding : imgOnload(r)

Spec == Init /\ [][Next]_vars
====
